---- MODULE Spec2Model ----
(***************************************************************************)
(* The form <-> URL query synchronizer (useFormQuery) of nuxt-utils.       *)
(*                                                                         *)
(* Data representation                                                     *)
(*   string        a non-empty sequence of comma-free segments:            *)
(*                 "a,b" is <<"a","b">>, "a" is <<"a">>, "" is <<"">>.     *)
(*                 join(',') concatenates segments, split(',') cuts them.  *)
(*   form value    a record tagged by its JavaScript runtime type t.       *)
(*   URL key       [b, k, i]: base name, notation (plain | bracket |       *)
(*                 index) and the index n of field[n].                     *)
(*   URL value     [l, v]: l says whether it is a string[]; v holds the    *)
(*                 strings (exactly one when l is FALSE).                  *)
(*   object        an insertion-ordered sequence of [k, v] entries with    *)
(*                 distinct keys (a JavaScript object with string keys).   *)
(***************************************************************************)
EXTENDS Integers, Sequences, FiniteSets, TLC

VARIABLES
    values,         \* options.values.value: field name -> form value
    initialValues,  \* initialValues.value: the dirty-check baseline
    urlParams,      \* the reactive urlParams object
    options,        \* urlFields, arrayFormat, onlyDirtyValues, updateValues,
                    \* toUrl, fromUrl, initialValues
    baselineIsValues, \* initialValues.value and options.values.value are one object
    valueJob,       \* the value -> URL watcher is queued
    urlJob,         \* the URL -> value watcher is queued
    urlValues,      \* result of the last fromUrlParams call (else empty)
    lastOp,         \* the operation that produced this state
    call,           \* the arguments of that operation (else nothing)
    returned,       \* what the last operation returned or threw (else nothing)
    stores,         \* the createStore calls made: id and injection key
    instances,      \* the store objects init has returned
    initCalls,      \* how many times an init function has run
    phase,          \* component -> "none", "setup" or "mounted"
    provides,       \* component -> what its setup has provided, by key
    services,       \* component -> the stores its provideStore calls returned
    fetchMap,       \* Object.entries(fetchMap): the keys, in entry order
    fetches,        \* index -> the promise its fetch function returned
    completed,      \* the indexes of the settled fetches, in completion order
    fetchPc,        \* where the handler of useManualParallelFetch stands
    data,           \* what the handler returned (else nothing)
    formOptions,    \* useForm's options: schema, onSubmit, onError
    given,          \* what options.initialValues held when useForm was called
    initialNow,     \* what the options.initialValues object holds now
    topShared,      \* values.value is the options.initialValues object
    nestedShared,   \* values.value.profile is options.initialValues.profile
    formValues,     \* formState.values.value
    touched,        \* formState.touched.value: the touched paths
    errors,         \* validation.errors.value: the paths that have a message
    isValid,        \* validation.isValid.value
    isSubmitting,   \* submission.isSubmitting.value
    submitted,      \* submission.submitted.value
    submitCount,    \* submission.submitCount.value
    result,         \* submission.result.value
    tasks,          \* the asynchronous calls in flight
    settled         \* the call that settled in this step, with what it invoked

formVars == <<values, initialValues, urlParams, options, valueJob, urlJob, urlValues,
              baselineIsValues>>

storeVars == <<stores, instances, initCalls, phase, provides, services>>

fetchVars == <<fetchMap, fetches, completed, fetchPc, data>>

useFormVars == <<formOptions, given, initialNow, topShared, nestedShared, formValues,
                 touched, errors, isValid, isSubmitting, submitted, submitCount,
                 result, tasks, settled>>

vars == <<formVars, storeVars, fetchVars, useFormVars, lastOp, call, returned>>

----------------------------------------------------------------------------
(* Bounds of the model *)

\* longest array a user edit may put into the form (besides LongArray)
MaxLen == 2
\* length of the one long array a user edit may put into the form
LongLen == 21

----------------------------------------------------------------------------
(* Strings and form values *)

S(seg) == <<seg>>

Undefined == [t |-> "undefined"]
StrV(s) == [t |-> "string", s |-> s]
NumV(n) == [t |-> "number", nan |-> FALSE, n |-> n]
NaN == [t |-> "number", nan |-> TRUE, n |-> 0]
BoolV(b) == [t |-> "boolean", b |-> b]
ArrV(a) == [t |-> "array", a |-> a]
Null == [t |-> "null"]
\* a Date: a valid one is known by its ISO string
DateV(iso) == [t |-> "date", valid |-> TRUE, iso |-> iso]
InvalidDate == [t |-> "date", valid |-> FALSE, iso |-> ""]
\* a plain object, known by its JSON text
ObjV(json) == [t |-> "object", json |-> json]

MapSeq(s, Op(_)) == [i \in 1..Len(s) |-> Op(s[i])]

\* Op applied to the value of v, which is computed once
Bind(v, Op(_)) == CHOOSE r \in {Op(x) : x \in {v}} : TRUE

\* decimal numerals of the numbers the model uses
Numerals == { <<0, "0">>, <<7, "7">>, <<30, "30">>, <<42, "42">> }

\* String(n) for a number
NumberToString(v) ==
    IF v.nan THEN S("NaN")
    ELSE IF \E p \in Numerals : p[1] = v.n
         THEN S((CHOOSE p \in Numerals : p[1] = v.n)[2])
         ELSE S("?")

\* Number(str): the empty string is 0, a numeral its number, anything else
\* (also any string holding a comma) NaN
Number(str) ==
    IF Len(str) # 1 THEN NaN
    ELSE IF str[1] = "" THEN NumV(0)
    ELSE IF \E p \in Numerals : p[2] = str[1]
         THEN NumV((CHOOSE p \in Numerals : p[2] = str[1])[1])
         ELSE NaN

\* String(item) for a primitive
String(v) ==
    CASE v.t = "string" -> v.s
      [] v.t = "number" -> NumberToString(v)
      [] v.t = "boolean" -> IF v.b THEN S("true") ELSE S("false")
      [] OTHER -> S("undefined")

\* a !== b for primitives, null and undefined (NaN differs from everything)
\* and for array items: two objects built apart are never the same object
StrictNotEqual(a, b) ==
    IF a.t # b.t THEN TRUE
    ELSE CASE a.t = "number" -> a.nan \/ b.nan \/ a.n # b.n
           [] a.t \in {"date", "object", "array"} -> TRUE
           [] OTHER -> a # b

\* the ISO date strings and the JSON texts of plain objects the model uses
IsoStrings == {"2024-01-01T00:00:00.000Z"}
ObjectTexts == {"{\"k\":1}"}

\* new Date(str): an ISO string parses, the other strings of the model
\* ("", "x", "a,b", ...) give an Invalid Date
NewDate(str) ==
    IF Len(str) = 1 /\ str[1] \in IsoStrings THEN DateV(str[1]) ELSE InvalidDate

\* whether JSON.parse(str) throws
JsonParseThrows(str) ==
    \/ Len(str) # 1
    \/ /\ str[1] \notin ObjectTexts \cup {"true", "false", "null"}
       /\ ~\E p \in Numerals : p[2] = str[1]

\* JSON.parse(str) when it does not throw
JsonParse(str) ==
    CASE str[1] \in ObjectTexts -> ObjV(str[1])
      [] str[1] = "true" -> BoolV(TRUE)
      [] str[1] = "false" -> BoolV(FALSE)
      [] str[1] = "null" -> Null
      [] OTHER -> Number(str)

\* the JSON image of an array item: what JSON.stringify keeps of it
JsonOfItem(v) ==
    CASE v.t = "number" -> IF v.nan THEN Null ELSE v
      [] v.t = "date" -> IF v.valid THEN StrV(S(v.iso)) ELSE Null
      [] v.t = "undefined" -> Null
      [] OTHER -> v

\* the JSON image of a value: JSON.stringify(a) === JSON.stringify(b)
\* exactly when the images are equal, and JSON.parse(JSON.stringify(v)) is
\* the image of v
JsonOf(v) ==
    CASE v.t = "array" -> ArrV(MapSeq(v.a, JsonOfItem))
      [] v.t = "undefined" -> Undefined
      [] OTHER -> JsonOfItem(v)

\* Array.prototype.join(','): strings joined by commas; [] joins to ""
RECURSIVE JoinStrings(_)
JoinStrings(strs) ==
    IF Len(strs) = 0 THEN S("")
    ELSE IF Len(strs) = 1 THEN strs[1]
    ELSE strs[1] \o JoinStrings(Tail(strs))

\* str.split(','): one string per segment
Split(str) == [i \in 1..Len(str) |-> S(str[i])]


\* the outcome of an operation
NoResult == [t |-> "none"]
Returned(v) == [t |-> "value", v |-> v]
Thrown(e) == [t |-> "throw", e |-> e]

\* an operation called without arguments
NoArgs == [t |-> "none"]

----------------------------------------------------------------------------
(* Insertion-ordered objects *)

ObjKeys(o) == [i \in 1..Len(o) |-> o[i].k]
ObjHas(o, key) == \E i \in 1..Len(o) : o[i].k = key
ObjGet(o, key) == o[CHOOSE i \in 1..Len(o) : o[i].k = key].v
\* o[key] = val: an existing key keeps its place, a new key goes last
ObjSet(o, key, val) ==
    IF ObjHas(o, key)
    THEN [o EXCEPT ![CHOOSE i \in 1..Len(o) : o[i].k = key] = [k |-> key, v |-> val]]
    ELSE Append(o, [k |-> key, v |-> val])
\* delete o[key]
ObjDelete(o, key) == SelectSeq(o, LAMBDA e : e.k # key)

----------------------------------------------------------------------------
(* URL keys and values *)

PlainKey(b) == [b |-> b, k |-> "plain", i |-> 0]
BracketKey(b) == [b |-> b, k |-> "bracket", i |-> 0]
IndexKey(b, n) == [b |-> b, k |-> "index", i |-> n]

UrlString(s) == [l |-> FALSE, v |-> <<s>>]
UrlList(strs) == [l |-> TRUE, v |-> strs]

----------------------------------------------------------------------------
(* Path helpers.  The paths of the model are top-level field names. *)

getValueByPath(obj, path) ==
    IF ObjHas(obj, path) THEN ObjGet(obj, path) ELSE Undefined

setValueByPath(obj, path, value) == ObjSet(obj, path, value)

----------------------------------------------------------------------------
(* Options *)

\* options.urlFields is given
HasUrlFields == options.urlFields.given

\* options.urlFields.includes(path)
UrlFieldsIncludes(path) ==
    \E i \in 1..Len(options.urlFields.fields) : options.urlFields.fields[i] = path

\* options.arrayFormat?.fields?.[field] || defaultArrayFormat
ArrayFormatOf(field) ==
    IF field \in DOMAIN options.arrayFormat.fields
    THEN options.arrayFormat.fields[field]
    ELSE options.arrayFormat.default

----------------------------------------------------------------------------
(* isDirty *)

\* the comparison of isDirty, after the onlyDirtyValues test
ChangedFrom(initialValue, value) ==
    IF value.t \notin {"array", "date", "object"}
    THEN StrictNotEqual(value, initialValue)
    ELSE IF value.t = "array" /\ initialValue.t = "array"
         THEN \/ Len(value.a) # Len(initialValue.a)
              \/ \E i \in 1..Len(value.a) :
                     StrictNotEqual(value.a[i], initialValue.a[i])
    \* getTime() of an Invalid Date is NaN, which differs from itself
    ELSE IF value.t = "date" /\ initialValue.t = "date"
         THEN ~value.valid \/ ~initialValue.valid \/ value.iso # initialValue.iso
    ELSE JsonOf(value) # JsonOf(initialValue)

isDirty(path, value) ==
    IF ~options.onlyDirtyValues THEN TRUE
    ELSE ChangedFrom(getValueByPath(initialValues, path), value)

----------------------------------------------------------------------------
(* toUrlParams *)

\* the fields toUrlParams and getDirtyFields walk
FieldsToInclude(vals) ==
    IF HasUrlFields THEN options.urlFields.fields ELSE ObjKeys(vals)

\* o[e.k] = e.v for every entry e of a list with distinct keys, in order:
\* existing keys keep their places, new keys go last in the order of the list
ObjSetAll(o, entries) ==
    [i \in 1..Len(o) |->
        IF ObjHas(entries, o[i].k) THEN [k |-> o[i].k, v |-> ObjGet(entries, o[i].k)]
        ELSE o[i]]
    \o SelectSeq(entries, LAMBDA e : ~ObjHas(o, e.k))

\* value.forEach((item, index) => params[`${fieldKey}[${index}]`] = String(item))
IndexEntries(params, field, items) ==
    ObjSetAll(params,
              [n \in 1..Len(items) |->
                  [k |-> IndexKey(field, n - 1), v |-> UrlString(String(items[n]))]])

ArrayToParams(params, field, items) ==
    LET arrayFormat == ArrayFormatOf(field) IN
    CASE arrayFormat = "comma" ->
            ObjSet(params, PlainKey(field), UrlString(JoinStrings(MapSeq(items, String))))
      [] arrayFormat = "bracket" ->
            ObjSet(params, BracketKey(field), UrlList(MapSeq(items, String)))
      [] arrayFormat = "index" ->
            IndexEntries(params, field, items)
      [] arrayFormat = "repeat" ->
            ObjSet(params, PlainKey(field), UrlList(MapSeq(items, String)))

\* the body of fieldsToInclude.forEach for one field
FieldToParams(params, vals, field) ==
    LET value == getValueByPath(vals, field) IN
    IF value.t \in {"undefined", "null"} THEN params
    ELSE IF ~isDirty(field, value) THEN params
    ELSE IF value.t \in {"string", "number", "boolean"}
         THEN ObjSet(params, PlainKey(field), UrlString(String(value)))
    \* toISOString() of an Invalid Date throws: see ToUrlThrows
    ELSE IF value.t = "date"
         THEN ObjSet(params, PlainKey(field), UrlString(S(value.iso)))
    ELSE IF value.t = "array"
         THEN IF Len(value.a) > 0 THEN ArrayToParams(params, field, value.a) ELSE params
    ELSE IF value.t = "object"
         THEN ObjSet(params, PlainKey(field), UrlString(S(value.json)))
    ELSE params

\* whether toUrlParams(vals) throws (a RangeError of toISOString)
ToUrlThrows(vals) ==
    /\ ~options.toUrl
    /\ \E n \in 1..Len(FieldsToInclude(vals)) :
        LET value == getValueByPath(vals, FieldsToInclude(vals)[n]) IN
        /\ value.t = "date"
        /\ isDirty(FieldsToInclude(vals)[n], value)
        /\ ~value.valid

\* an options.toUrl: values => ({ 'tags[]': values.tags.map(String),
\* n: String(values.age) })
toUrl(vals) ==
    << [k |-> BracketKey("tags"),
        v |-> UrlList(MapSeq(getValueByPath(vals, "tags").a, String))],
       [k |-> PlainKey("n"),
        v |-> UrlString(String(getValueByPath(vals, "age")))] >>

RECURSIVE ToUrlParamsFrom(_, _, _, _)
ToUrlParamsFrom(params, vals, fields, n) ==
    IF n > Len(fields) THEN params
    ELSE Bind(FieldToParams(params, vals, fields[n]),
              LAMBDA next : ToUrlParamsFrom(next, vals, fields, n + 1))

toUrlParams(vals) ==
    IF options.toUrl THEN toUrl(vals)
    ELSE ToUrlParamsFrom(<<>>, vals, FieldsToInclude(vals), 1)

----------------------------------------------------------------------------
(* The reactive objects.  A step over a reactive object carries the object *)
(* o and whether a dependent watcher was triggered, t.                     *)

\* fold a step over the elements of a sequence, left to right
RECURSIVE ForEach(_, _, _)
ForEach(Step(_, _), start, elems) ==
    IF Len(elems) = 0 THEN start
    ELSE Bind(Step(start, Head(elems)), LAMBDA next : ForEach(Step, next, Tail(elems)))

\* delete o[key]: triggers when the key was there
ReactiveDelete(st, key) ==
    IF ObjHas(st.o, key) THEN [o |-> ObjDelete(st.o, key), t |-> TRUE] ELSE st

\* o[key] = val: triggers for a new key and for a changed value; an array is
\* a new object every time it is assigned, so it always counts as changed
ReactiveSet(st, key, val, isArray) ==
    [o |-> ObjSet(st.o, key, val),
     t |-> st.t \/ ~ObjHas(st.o, key) \/ isArray \/ ObjGet(st.o, key) # val]

----------------------------------------------------------------------------
(* The value -> URL watcher *)

\* lower limit of the index keys the clear step deletes
ClearFloor == 20
\* index keys the clear step deletes beyond the array's length
ClearSlack == 5

\* for (i = 0; i < limit; i++) delete urlParams[`${field}[${i}]`]
DeleteIndexKeys(st, field, limit) ==
    LET doomed(key) == key.k = "index" /\ key.b = field /\ key.i < limit IN
    [o |-> SelectSeq(st.o, LAMBDA e : ~doomed(e.k)),
     t |-> st.t \/ \E n \in 1..Len(st.o) : doomed(st.o[n].k)]

\* the body of the clear step for one field of urlFields
ClearField(st, newValues, field) ==
    LET value == getValueByPath(newValues, field) IN
    IF value.t = "array"
    THEN Bind(ReactiveDelete(ReactiveDelete(st, PlainKey(field)), BracketKey(field)),
              LAMBDA next :
                  DeleteIndexKeys(next, field,
                                  IF ClearFloor > Len(value.a) + ClearSlack
                                  THEN ClearFloor ELSE Len(value.a) + ClearSlack))
    ELSE st

\* "Before updating, clear any existing array parameters that might conflict"
ClearStep(st, newValues) ==
    IF HasUrlFields
    THEN ForEach(LAMBDA acc, field : ClearField(acc, newValues, field),
                 st, options.urlFields.fields)
    ELSE st

\* the assignments the write step makes for one entry of newParams: a key
\* ending in [] is written in index notation, any other key as it is
WriteEntry(entry) ==
    IF entry.k.k = "bracket"
    THEN IF entry.v.l
         THEN [n \in 1..Len(entry.v.v) |->
                  [k |-> IndexKey(entry.k.b, n - 1), v |-> UrlString(entry.v.v[n])]]
         ELSE << [k |-> IndexKey(entry.k.b, 0), v |-> entry.v] >>
    ELSE << entry >>

RECURSIVE Flatten(_)
Flatten(lists) ==
    IF Len(lists) = 0 THEN <<>> ELSE Head(lists) \o Flatten(Tail(lists))

\* urlParams[e.k] = e.v for every assignment e (their keys are distinct)
ReactiveSetAll(st, entries) ==
    [o |-> ObjSetAll(st.o, entries),
     t |-> st.t \/ \E n \in 1..Len(entries) :
                     \/ ~ObjHas(st.o, entries[n].k)
                     \/ entries[n].v.l
                     \/ ObjGet(st.o, entries[n].k) # entries[n].v]

\* "Update URL without triggering the URL watcher"
WriteStep(st, newParams) ==
    ReactiveSetAll(st, Flatten(MapSeq(newParams, WriteEntry)))

\* a remove step that forgets the urlFields test
RemoveKeyOfAnyField(newParams, key) ==
    /\ key.k = "plain"
    /\ ~\E i \in 1..Len(newParams) :
            \/ newParams[i].k = key
            \/ newParams[i].k.k # "plain" /\ newParams[i].k.b = key.b

\* whether the remove step deletes a key of urlParams
RemoveKey(newParams, key) ==
    IF key.k = "plain"
    THEN LET isBaseParam ==
                \E i \in 1..Len(newParams) :
                    \/ newParams[i].k = key
                    \/ newParams[i].k.k # "plain" /\ newParams[i].k.b = key.b
         IN ~isBaseParam /\ (UrlFieldsIncludes(key.b) \/ ~HasUrlFields)
    ELSE FALSE

\* "Remove params that are no longer in the form"
RemoveStep(st, newParams) ==
    [o |-> SelectSeq(st.o, LAMBDA e : ~RemoveKey(newParams, e.k)),
     t |-> st.t \/ \E n \in 1..Len(st.o) : RemoveKey(newParams, st.o[n].k)]

\* the whole callback: urlParams and the trigger of the URL watcher
SyncToUrl(url, newValues) ==
    Bind(toUrlParams(newValues), LAMBDA newParams :
        Bind(ClearStep([o |-> url, t |-> FALSE], newValues), LAMBDA cleared :
            Bind(WriteStep(cleared, newParams), LAMBDA written :
                RemoveStep(written, newParams))))

----------------------------------------------------------------------------
(* fromUrlParams *)

IsArrayNotation(key) == key.k \in {"bracket", "index"}

\* the base names of arrayParamGroups, in the order of their first key
GroupBases(params) ==
    LET first(n) == /\ IsArrayNotation(params[n].k)
                    /\ \A m \in 1..(n - 1) :
                          ~(IsArrayNotation(params[m].k) /\ params[m].k.b = params[n].k.b)
    IN MapSeq(SelectSeq([n \in 1..Len(params) |-> n], first), LAMBDA n : params[n].k.b)

\* arrayParamGroups[baseKey]
GroupItems(params, baseKey) ==
    SelectSeq(params, LAMBDA e : IsArrayNotation(e.k) /\ e.k.b = baseKey)

\* "Collect all values"
RECURSIVE CollectValues(_)
CollectValues(items) ==
    IF Len(items) = 0 THEN <<>>
    ELSE Head(items).v.v \o CollectValues(Tail(items))

\* typedValues: the first element of the reference array decides the type
TypedValues(arrayValues, currentValue) ==
    IF Len(currentValue.a) > 0 /\ currentValue.a[1].t = "number"
    THEN MapSeq(arrayValues, Number)
    ELSE IF Len(currentValue.a) > 0 /\ currentValue.a[1].t = "boolean"
    THEN MapSeq(arrayValues, LAMBDA str : BoolV(str = S("true")))
    ELSE MapSeq(arrayValues, StrV)

\* the body of "Process and combine array parameters" for one group;
\* acc holds result and processedKeys
ProcessGroup(acc, params, referenceValues, baseKey) ==
    IF HasUrlFields /\ ~UrlFieldsIncludes(baseKey) THEN acc
    ELSE LET items == GroupItems(params, baseKey)
             currentValue == getValueByPath(referenceValues, baseKey)
         IN [processedKeys |->
                acc.processedKeys \cup {PlainKey(baseKey)}
                    \cup {items[i].k : i \in 1..Len(items)},
             result |->
                IF currentValue.t = "array"
                THEN setValueByPath(acc.result, baseKey,
                        ArrV(TypedValues(CollectValues(items), currentValue)))
                ELSE acc.result]

\* a second pass that forgets the number branch: the string passes through
ConvertValueNoNumber(key, paramValue, currentValue) ==
    LET strValue == IF paramValue.l THEN JoinStrings(paramValue.v) ELSE paramValue.v[1] IN
    CASE currentValue.t = "boolean" -> BoolV(strValue = S("true"))
      [] OTHER -> StrV(strValue)

\* convertedValue of the second pass
ConvertValue(key, paramValue, currentValue) ==
    LET strValue == IF paramValue.l THEN JoinStrings(paramValue.v) ELSE paramValue.v[1] IN
    CASE currentValue.t = "undefined" -> StrV(strValue)
      [] currentValue.t = "number" -> Number(strValue)
      [] currentValue.t = "boolean" -> BoolV(strValue = S("true"))
      [] currentValue.t = "date" -> NewDate(strValue)
      [] currentValue.t = "object" ->
            IF JsonParseThrows(strValue) THEN StrV(strValue) ELSE JsonParse(strValue)
      [] currentValue.t = "array" ->
            LET parts == IF ArrayFormatOf(key.b) = "repeat" /\ paramValue.l
                         THEN paramValue.v
                         ELSE Split(strValue)
            IN ArrV(MapSeq(SelectSeq(parts, LAMBDA v : v # S("")), StrV))
      [] OTHER -> StrV(strValue)

\* whether the second pass converts an entry of params: its key is not
\* processed and, with urlFields, is in urlFields (which holds field names,
\* so no key in array notation)
SecondPassTakes(processedKeys, key) ==
    /\ key \notin processedKeys
    /\ ~HasUrlFields \/ (key.k = "plain" /\ UrlFieldsIncludes(key.b))

\* the field an entry of the second pass sets, with its converted value; a
\* key the second pass takes is a plain key: without urlFields every key in
\* array notation is processed by the first pass
ProcessParam(referenceValues, entry) ==
    [k |-> entry.k.b,
     v |-> ConvertValue(entry.k, entry.v, getValueByPath(referenceValues, entry.k.b))]

\* the string a URL value is read as
TextOf(v) == IF v.l THEN JoinStrings(v.v) ELSE v.v[1]

\* an options.fromUrl: params => 'n' in params ? { age: Number(params.n) } : {}
fromUrl(params) ==
    IF ObjHas(params, PlainKey("n"))
    THEN << [k |-> "age", v |-> Number(TextOf(ObjGet(params, PlainKey("n"))))] >>
    ELSE <<>>

\* the default implementation of fromUrlParams
DefaultFromUrl(params, referenceValues) ==
    Bind(ForEach(LAMBDA acc, baseKey :
                    ProcessGroup(acc, params, referenceValues, baseKey),
                 [processedKeys |-> {}, result |-> <<>>],
                 GroupBases(params)),
         LAMBDA first :
            ObjSetAll(first.result,
                      MapSeq(SelectSeq(params,
                                       LAMBDA e : SecondPassTakes(first.processedKeys, e.k)),
                             LAMBDA e : ProcessParam(referenceValues, e))))

fromUrlParams(params, referenceValues) ==
    IF options.fromUrl THEN fromUrl(params) ELSE DefaultFromUrl(params, referenceValues)

\* the updateValues callback: Object.assign(values, partial)
updateValues(st, partial) ==
    ForEach(LAMBDA acc, entry :
                ReactiveSet(acc, entry.k, entry.v, entry.v.t = "array"),
            st, partial)

----------------------------------------------------------------------------
(* Inputs *)

Entry(key, val) == [k |-> key, v |-> val]

\* the form's default state
DefaultValues ==
    << Entry("tags", ArrV(<<>>)),
       Entry("age", NumV(30)),
       Entry("inStock", BoolV(TRUE)) >>

\* the array elements a user edit chooses from
Items == {"a", "b"}

RECURSIVE ArraysUpTo(_)
ArraysUpTo(n) ==
    IF n = 0 THEN {<<>>}
    ELSE LET shorter == ArraysUpTo(n - 1) IN
         shorter \cup {Append(a, StrV(S(x))) : a \in {b \in shorter : Len(b) = n - 1}, x \in Items}

LongArray == [i \in 1..LongLen |-> StrV(S("a"))]

\* arrays of one string that holds a comma ("a,b") or is empty ("")
OddArrays == { << StrV(<<"a", "b">>) >>, << StrV(S("")) >> }

\* the values a user edit may give a field
UserValues(field) ==
    CASE field = "tags" -> {ArrV(a) : a \in ArraysUpTo(MaxLen) \cup {LongArray} \cup OddArrays}
      [] field = "age" -> {NumV(30), NumV(42)}

\* the fields the page's inputs edit
UserFields == {"tags", "age"}

\* the query strings a page load or a navigation may bring
ExternalUrls ==
    { <<>>,
      << Entry(IndexKey("tags", 1), UrlString(S("b"))),
         Entry(IndexKey("tags", 0), UrlString(S("a"))) >>,
      << Entry(BracketKey("tags"), UrlList(<<S("a"), S("b")>>)) >>,
      << Entry(PlainKey("age"), UrlString(S("42"))),
         Entry(IndexKey("age", 0), UrlString(S("7"))) >>,
      << Entry(PlainKey("age"), UrlString(S("42"))),
         Entry(PlainKey("inStock"), UrlString(S("false"))),
         Entry(PlainKey("q"), UrlString(S("x"))) >>,
      << Entry(PlainKey("inStock"), UrlString(S("false"))),
         Entry(BracketKey("inStock"), UrlString(S("a"))),
         Entry(IndexKey("inStock", 0), UrlString(S("b"))) >> }

\* the configurations of the synchronizer
UrlFieldsChoices ==
    { [given |-> FALSE, fields |-> <<>>],
      [given |-> TRUE, fields |-> <<"tags", "age">>] }

ArrayFormats == {"comma", "bracket", "index", "repeat"}

ArrayFormatChoices ==
    { [default |-> "repeat", fields |-> <<>>],
      [default |-> "comma", fields |-> [f \in {"tags"} |-> "bracket"]],
      [default |-> "comma", fields |-> [f \in {"tags"} |-> "index"]],
      [default |-> "index", fields |-> [f \in {"tags"} |-> "comma"]] }

----------------------------------------------------------------------------
(* The state machine *)

\* JSON.parse(JSON.stringify(obj)) of the values object: a key whose value
\* is undefined is dropped
JsonCopy(obj) ==
    SelectSeq([n \in 1..Len(obj) |-> [k |-> obj[n].k, v |-> JsonOf(obj[n].v)]],
              LAMBDA e : e.v.t # "undefined")

\* the components of the page
Components == {"Root", "Child", "Grandchild"}

\* useManualParallelFetch has not been called
NoFetch ==
    /\ fetchMap = <<>>
    /\ fetches = <<>>
    /\ completed = <<>>
    /\ fetchPc = "none"
    /\ data = [t |-> "none"]

\* useForm has not been called
NoUseForm ==
    /\ formOptions = [schema |-> "none", onSubmit |-> FALSE, onError |-> FALSE]
    /\ given = <<>> /\ initialNow = <<>> /\ formValues = <<>>
    /\ topShared = FALSE /\ nestedShared = FALSE
    /\ touched = {} /\ errors = {}
    /\ isValid = TRUE /\ isSubmitting = FALSE /\ submitted = FALSE
    /\ submitCount = 0 /\ result = [t |-> "null"]
    /\ tasks = <<>> /\ settled = [t |-> "none"]

\* no createStore call has been made and no component is set up
NoStores ==
    /\ stores = <<>>
    /\ instances = <<>>
    /\ initCalls = 0
    /\ phase = [c \in Components |-> "none"]
    /\ provides = [c \in Components |-> <<>>]
    /\ services = [c \in Components |-> <<>>]

\* an options.initialValues that is an object of its own
GivenBaseline ==
    << Entry("tags", ArrV(<< StrV(S("a")) >>)),
       Entry("age", NumV(42)),
       Entry("inStock", BoolV(TRUE)) >>

\* an assignment to a field of options.values.value: the baseline sees it
\* when it is the same object
AssignedInPlace ==
    /\ initialValues' = IF baselineIsValues THEN values' ELSE initialValues
    /\ UNCHANGED baselineIsValues

\* the state after useFormQuery(options) has run on a freshly loaded page:
\* forms holds the values objects the page may start with, urls the query
\* strings it may be loaded with, opts the options it may pass
SetupOf(forms, urls, opts) ==
    /\ values \in forms
    /\ options \in opts
    /\ initialValues = CASE options.initialValues = "none" -> JsonCopy(values)
                         [] options.initialValues = "values" -> values
                         [] options.initialValues = "given" -> GivenBaseline
    /\ baselineIsValues = (options.initialValues = "values")
    /\ urlParams \in urls
    /\ valueJob = FALSE
    /\ urlJob = FALSE
    /\ urlValues = <<>>
    /\ lastOp = "setup"
    /\ NoStores
    /\ NoFetch
    /\ NoUseForm
    /\ call = NoArgs
    /\ returned = NoResult

\* the page of the playground; withCallback says whether
\* options.updateValues is given
Setup(urls, withCallback) ==
    /\ values = DefaultValues
    /\ initialValues = DefaultValues
    /\ urlParams \in urls
    /\ options \in [urlFields : UrlFieldsChoices,
                    arrayFormat : ArrayFormatChoices,
                    onlyDirtyValues : BOOLEAN,
                    updateValues : {withCallback},
                    toUrl : {FALSE},
                    fromUrl : {FALSE},
                    initialValues : {"none"}]
    /\ baselineIsValues = FALSE
    /\ valueJob = FALSE
    /\ urlJob = FALSE
    /\ urlValues = <<>>
    /\ lastOp = "setup"
    /\ NoStores
    /\ NoFetch
    /\ NoUseForm
    /\ call = NoArgs
    /\ returned = NoResult

\* an input event of the page assigns a field of the form; events come
\* one at a time, each after the jobs of the one before have run
SetFieldValue ==
    /\ ~valueJob /\ ~urlJob
    /\ \E field \in UserFields : \E v \in UserValues(field) :
        /\ v # getValueByPath(values, field)
        /\ values' = ObjSet(values, field, v)
        /\ valueJob' = TRUE
        /\ urlValues' = <<>>
        /\ AssignedInPlace
        /\ lastOp' = "set"
        /\ UNCHANGED <<storeVars, fetchVars, useFormVars>>
        /\ call' = NoArgs
        /\ returned' = NoResult
        /\ UNCHANGED <<urlParams, options, urlJob>>

\* the watcher of options.values.value runs
ValueWatcher ==
    /\ valueJob
    /\ IF ToUrlThrows(values)
       THEN /\ returned' = Thrown("RangeError")
            /\ UNCHANGED <<urlParams, urlJob>>
       ELSE /\ returned' = NoResult
            /\ \E st \in {SyncToUrl(urlParams, values)} :
                /\ urlParams' = st.o
                /\ urlJob' = (urlJob \/ st.t)
    /\ valueJob' = FALSE
    /\ urlValues' = <<>>
    /\ lastOp' = "sync"
    /\ UNCHANGED <<storeVars, fetchVars, useFormVars>>
    /\ call' = NoArgs
    /\ UNCHANGED <<values, initialValues, options, baselineIsValues>>

\* the watcher of urlParams runs; jobs run in the order the watchers were
\* created, so a queued value watcher goes first
UrlWatcher ==
    /\ urlJob
    /\ ~valueJob
    /\ \E partial \in {fromUrlParams(urlParams, values)} :
        \E st \in {IF options.updateValues
                    THEN updateValues([o |-> values, t |-> FALSE], partial)
                    ELSE [o |-> values, t |-> FALSE]} :
            /\ urlValues' = partial
            /\ values' = st.o
            /\ valueJob' = st.t
    /\ AssignedInPlace
    /\ urlJob' = FALSE
    /\ lastOp' = "urlwatch"
    /\ UNCHANGED <<storeVars, fetchVars, useFormVars>>
    /\ call' = NoArgs
    /\ returned' = NoResult
    /\ UNCHANGED <<urlParams, options>>

\* the browser navigates: the URL store takes the new query string
Navigate ==
    /\ ~valueJob /\ ~urlJob
    /\ \E url \in ExternalUrls :
        /\ url # urlParams
        /\ urlParams' = url
    /\ urlJob' = TRUE
    /\ urlValues' = <<>>
    /\ lastOp' = "navigate"
    /\ UNCHANGED <<storeVars, fetchVars, useFormVars>>
    /\ call' = NoArgs
    /\ returned' = NoResult
    /\ UNCHANGED <<values, initialValues, options, valueJob, baselineIsValues>>

initialValuesFromUrl ==
    /\ ~valueJob /\ ~urlJob
    /\ urlValues' = fromUrlParams(urlParams, values)
    /\ lastOp' = "read"
    /\ UNCHANGED <<storeVars, fetchVars, useFormVars>>
    /\ call' = NoArgs
    /\ returned' = NoResult
    /\ UNCHANGED <<values, initialValues, urlParams, options, valueJob, urlJob,
                   baselineIsValues>>

\* for (i = 0; i < ClearCount; i++) delete urlParams[`${field}[${i}]`]
ClearCount == 10

\* the body of clearUrlParams for one field of urlFields
ClearUrlField(st, field) ==
    Bind(ReactiveDelete(ReactiveDelete(st, PlainKey(field)), BracketKey(field)),
         LAMBDA next : DeleteIndexKeys(next, field, ClearCount))

\* a clearUrlParams that takes the clear-everything branch whatever urlFields is
ClearedUrlOfAllKeys(url) == [o |-> <<>>, t |-> Len(url) > 0]

\* urlParams and the trigger of the URL watcher after clearUrlParams()
ClearedUrl(url) ==
    IF HasUrlFields
    THEN ForEach(ClearUrlField, [o |-> url, t |-> FALSE], options.urlFields.fields)
    ELSE [o |-> <<>>, t |-> Len(url) > 0]

clearUrlParams ==
    /\ ~valueJob /\ ~urlJob
    /\ \E st \in {ClearedUrl(urlParams)} :
        /\ urlParams' = st.o
        /\ urlJob' = st.t
    /\ urlValues' = <<>>
    /\ lastOp' = "clear"
    /\ UNCHANGED <<storeVars, fetchVars, useFormVars>>
    /\ call' = NoArgs
    /\ returned' = NoResult
    /\ UNCHANGED <<values, initialValues, options, valueJob, baselineIsValues>>

Next ==
    \/ SetFieldValue
    \/ ValueWatcher
    \/ UrlWatcher
    \/ Navigate
    \/ initialValuesFromUrl
    \/ clearUrlParams

\* a page loaded with any query string, without an updateValues callback
Init == Setup(ExternalUrls, FALSE)

Spec == Init /\ [][Next]_vars

\* a session that never navigates: every URL key was written by a sync
NextSession ==
    \/ SetFieldValue
    \/ ValueWatcher
    \/ UrlWatcher
    \/ initialValuesFromUrl
    \/ clearUrlParams

\* a page loaded with an empty query string, without an updateValues callback
InitSession == Setup({<<>>}, FALSE)

SpecSession == InitSession /\ [][NextSession]_vars

\* the same session with the page's updateValues callback; the scheduler
\* runs every queued watcher job
InitLoop == Setup({<<>>}, TRUE)

SpecLoop ==
    InitLoop /\ [][NextSession]_vars /\ WF_vars(ValueWatcher) /\ WF_vars(UrlWatcher)

----------------------------------------------------------------------------
(* A page with a field of every supported type, loaded from a query string *)

\* the form's start state: a string, a number, a boolean, a date, an array
\* and a plain object
TypedForm ==
    << Entry("search", StrV(S(""))),
       Entry("age", NumV(30)),
       Entry("inStock", BoolV(TRUE)),
       Entry("since", DateV("2024-01-01T00:00:00.000Z")),
       Entry("tags", ArrV(<<>>)),
       Entry("meta", ObjV("{\"k\":1}")) >>

\* what a query string may carry for each field (nothing, or one entry)
TypedFormParts ==
    << { <<>>, << Entry(PlainKey("search"), UrlString(S("x"))) >> },
       { <<>>, << Entry(PlainKey("age"), UrlString(S("42"))) >>,
               << Entry(PlainKey("age"), UrlString(S("x"))) >> },
       { <<>>, << Entry(PlainKey("inStock"), UrlString(S("false"))) >> },
       { <<>>, << Entry(PlainKey("since"), UrlString(S("2024-01-01T00:00:00.000Z"))) >>,
               << Entry(PlainKey("since"), UrlString(S("x"))) >> },
       { <<>>, << Entry(PlainKey("tags"), UrlString(<<"a", "b">>)) >>,
               << Entry(PlainKey("tags"), UrlString(S(""))) >>,
               << Entry(IndexKey("tags", 0), UrlString(<<"a", "b">>)) >> },
       { <<>>, << Entry(PlainKey("meta"), UrlString(S("{\"k\":1}"))) >>,
               << Entry(PlainKey("meta"), UrlString(S("x"))) >>,
               << Entry(PlainKey("meta"), UrlString(S("42"))) >> } >>

\* the query strings built from one choice per field
TypedFormUrls ==
    { p[1] \o p[2] \o p[3] \o p[4] \o p[5] \o p[6] :
        p \in { q \in [1..6 -> UNION {TypedFormParts[n] : n \in 1..6}] :
                  \A n \in 1..6 : q[n] \in TypedFormParts[n] } }

TypedFormOptions ==
    [urlFields : { [given |-> FALSE, fields |-> <<>>],
                   [given |-> TRUE, fields |-> ObjKeys(TypedForm)] },
     arrayFormat : ArrayFormatChoices,
     onlyDirtyValues : BOOLEAN,
     updateValues : {FALSE},
     toUrl : {FALSE},
     fromUrl : {FALSE},
     initialValues : {"none"}]

\* { ...form, ...partial }
Applied(form, partial) == ObjSetAll(form, partial)

\* the page applies what it read from the URL to its form:
\* filterState.value = { ...defaultFilterState, ...urlValues }
ApplyUrlValues ==
    /\ lastOp = "read"
    /\ Len(urlValues) > 0
    /\ values' = Applied(TypedForm, urlValues)
    /\ valueJob' = TRUE
    /\ urlValues' = <<>>
    /\ baselineIsValues' = FALSE
    /\ lastOp' = "apply"
    /\ UNCHANGED <<storeVars, fetchVars, useFormVars>>
    /\ call' = NoArgs
    /\ returned' = NoResult
    /\ UNCHANGED <<initialValues, urlParams, options, urlJob>>

NextTyped ==
    \/ initialValuesFromUrl
    \/ ApplyUrlValues
    \/ ValueWatcher
    \/ UrlWatcher

InitTyped == SetupOf({TypedForm}, TypedFormUrls, TypedFormOptions)

SpecTyped == InitTyped /\ [][NextTyped]_vars

----------------------------------------------------------------------------
(* The operations useFormQuery returns *)

\* the flat maps a caller passes to updateUrlParams
UpdateParams ==
    { <<>>,
      << Entry(PlainKey("age"), UrlString(S("x"))) >>,
      << Entry(PlainKey("q"), UrlString(S("x"))),
         Entry(PlainKey("age"), UrlString(S("42"))) >>,
      << Entry(PlainKey("tags"), UrlString(<<"a", "b">>)) >> }

\* an updateUrlParams that forgets to clear the existing parameters
UpdatedUrlKeepingOld(url, params) ==
    ReactiveSetAll([o |-> url, t |-> FALSE], params)

\* urlParams and the trigger of the URL watcher after updateUrlParams(params)
UpdatedUrl(url, params) ==
    ReactiveSetAll(ForEach(ReactiveDelete, [o |-> url, t |-> FALSE], ObjKeys(url)),
                   params)

updateUrlParams ==
    /\ ~valueJob /\ ~urlJob
    /\ \E params \in UpdateParams :
        /\ \E st \in {UpdatedUrl(urlParams, params)} :
            /\ urlParams' = st.o
            /\ urlJob' = st.t
        /\ call' = [t |-> "updateUrlParams", params |-> params, replaced |-> urlParams]
    /\ urlValues' = <<>>
    /\ lastOp' = "updateUrlParams"
    /\ UNCHANGED <<storeVars, fetchVars, useFormVars>>
    /\ returned' = NoResult
    /\ UNCHANGED <<values, initialValues, options, valueJob, baselineIsValues>>

\* the arguments a caller passes to resetInitialValues: nothing, an object
\* of its own, or the current values object
ResetArguments == {"none", "given", "values"}

resetInitialValues ==
    /\ ~valueJob /\ ~urlJob
    /\ \E newInitialValues \in ResetArguments :
        /\ initialValues' = CASE newInitialValues = "none" -> JsonCopy(values)
                              [] newInitialValues = "given" -> GivenBaseline
                              [] newInitialValues = "values" -> values
        /\ baselineIsValues' = (newInitialValues = "values")
        /\ call' = [t |-> "resetInitialValues", newInitialValues |-> newInitialValues]
    /\ urlValues' = <<>>
    /\ lastOp' = "resetInitialValues"
    /\ UNCHANGED <<storeVars, fetchVars, useFormVars>>
    /\ returned' = NoResult
    /\ UNCHANGED <<values, urlParams, options, valueJob, urlJob>>

\* the paths a caller asks isFieldDirty about
DirtyPaths == {"tags", "age", "inStock", "q"}

isFieldDirty ==
    /\ ~valueJob /\ ~urlJob
    /\ \E path \in DirtyPaths :
        /\ returned' = Returned(isDirty(path, getValueByPath(values, path)))
        /\ call' = [t |-> "isFieldDirty", path |-> path]
    /\ urlValues' = <<>>
    /\ lastOp' = "isFieldDirty"
    /\ UNCHANGED <<storeVars, fetchVars, useFormVars>>
    /\ UNCHANGED <<values, initialValues, urlParams, options, valueJob, urlJob,
                   baselineIsValues>>

\* fields.filter(field => isDirty(field, getValueByPath(values, field)))
DirtyFields ==
    SelectSeq(FieldsToInclude(values),
              LAMBDA field : isDirty(field, getValueByPath(values, field)))

getDirtyFields ==
    /\ ~valueJob /\ ~urlJob
    /\ returned' = Returned(DirtyFields)
    /\ call' = NoArgs
    /\ urlValues' = <<>>
    /\ lastOp' = "getDirtyFields"
    /\ UNCHANGED <<storeVars, fetchVars, useFormVars>>
    /\ UNCHANGED <<values, initialValues, urlParams, options, valueJob, urlJob,
                   baselineIsValues>>

\* the page's tag checkbox: the tag leaves the array when it is there and
\* is appended when it is not
toggleTag ==
    /\ ~valueJob /\ ~urlJob
    /\ getValueByPath(values, "tags").t = "array"
    /\ \E tagId \in Items :
        LET tags == getValueByPath(values, "tags").a IN
        values' = setValueByPath(values, "tags",
                      ArrV(IF \E n \in 1..Len(tags) : tags[n] = StrV(S(tagId))
                           THEN SelectSeq(tags, LAMBDA t : t # StrV(S(tagId)))
                           ELSE Append(tags, StrV(S(tagId)))))
    /\ AssignedInPlace
    /\ valueJob' = TRUE
    /\ urlValues' = <<>>
    /\ lastOp' = "set"
    /\ UNCHANGED <<storeVars, fetchVars, useFormVars>>
    /\ call' = NoArgs
    /\ returned' = NoResult
    /\ UNCHANGED <<urlParams, options, urlJob>>

NextApi ==
    \/ toggleTag
    \/ ValueWatcher
    \/ UrlWatcher
    \/ initialValuesFromUrl
    \/ clearUrlParams
    \/ updateUrlParams
    \/ resetInitialValues
    \/ isFieldDirty
    \/ getDirtyFields

ApiOptions ==
    [urlFields : UrlFieldsChoices,
     arrayFormat : {[default |-> "comma", fields |-> <<>>]},
     onlyDirtyValues : BOOLEAN,
     updateValues : {TRUE},
     toUrl : {FALSE},
     fromUrl : {FALSE},
     initialValues : {"none", "given", "values"}]

\* a page with the updateValues callback whose code calls the operations
InitApi == SetupOf({DefaultValues}, {<<>>}, ApiOptions)

SpecApi == InitApi /\ [][NextApi]_vars

----------------------------------------------------------------------------
(* A page that gives its own toUrl and fromUrl *)

OverrideOptions ==
    { o \in [urlFields : UrlFieldsChoices,
             arrayFormat : {[default |-> "comma", fields |-> <<>>]},
             onlyDirtyValues : BOOLEAN,
             updateValues : BOOLEAN,
             toUrl : BOOLEAN,
             fromUrl : BOOLEAN,
             initialValues : {"none"}] :
        /\ o.toUrl \/ o.fromUrl
        /\ o.updateValues => o.fromUrl }

\* the query strings the page may be loaded with
OverrideUrls ==
    { <<>>,
      << Entry(PlainKey("n"), UrlString(S("7"))) >>,
      << Entry(PlainKey("age"), UrlString(S("42"))),
         Entry(PlainKey("n"), UrlString(S("x"))) >>,
      << Entry(IndexKey("tags", 1), UrlString(S("b"))),
         Entry(BracketKey("tags"), UrlString(S("a"))) >> }

NextOverride ==
    \/ toggleTag
    \/ ValueWatcher
    \/ UrlWatcher
    \/ initialValuesFromUrl
    \/ clearUrlParams
    \/ updateUrlParams

InitOverride == SetupOf({DefaultValues}, OverrideUrls, OverrideOptions)

SpecOverride == InitOverride /\ [][NextOverride]_vars

----------------------------------------------------------------------------
(* A page whose array fields hold numbers and booleans *)

\* the form's start state
ArrayForm ==
    << Entry("sizes", ArrV(<< NumV(30) >>)),
       Entry("flags", ArrV(<< BoolV(TRUE) >>)) >>

\* what a query string may carry for each field, in each array notation
ArrayFormParts ==
    << { <<>>,
         << Entry(PlainKey("sizes"), UrlString(<<"7", "42">>)) >>,
         << Entry(PlainKey("sizes"), UrlList(<<S("7"), S("42")>>)) >>,
         << Entry(BracketKey("sizes"), UrlList(<<S("7"), S("42")>>)) >>,
         << Entry(IndexKey("sizes", 0), UrlString(S("7"))),
            Entry(IndexKey("sizes", 1), UrlString(S("42"))) >> },
       { <<>>,
         << Entry(PlainKey("flags"), UrlString(<<"true", "false">>)) >>,
         << Entry(IndexKey("flags", 0), UrlString(S("false"))) >> } >>

ArrayFormUrls ==
    { sizes \o flags : sizes \in ArrayFormParts[1], flags \in ArrayFormParts[2] }

ArrayFormOptions ==
    [urlFields : { [given |-> FALSE, fields |-> <<>>],
                   [given |-> TRUE, fields |-> ObjKeys(ArrayForm)] },
     arrayFormat : { [default |-> f, fields |-> <<>>] : f \in ArrayFormats },
     onlyDirtyValues : BOOLEAN,
     updateValues : {FALSE},
     toUrl : {FALSE},
     fromUrl : {FALSE},
     initialValues : {"none"}]

NextArrays ==
    \/ initialValuesFromUrl
    \/ clearUrlParams
    \/ UrlWatcher

InitArrays == SetupOf({ArrayForm}, ArrayFormUrls, ArrayFormOptions)

SpecArrays == InitArrays /\ [][NextArrays]_vars

----------------------------------------------------------------------------
(* createStore: stores shared through provide and inject.  Components are *)
(* set up parent first; provideStore and useStore are called in setup().   *)

\* createStore calls a module makes
MaxStores == 2
\* store objects the page creates
MaxInstances == 2
\* the counter's highest value
MaxCount == 1

\* the component tree: Root > Child > Grandchild
Parent(c) ==
    CASE c = "Child" -> "Root"
      [] c = "Grandchild" -> "Child"
      [] OTHER -> "none"

\* the proper ancestors of a component, nearest first
RECURSIVE Ancestors(_)
Ancestors(c) ==
    IF Parent(c) = "none" THEN <<>> ELSE <<Parent(c)>> \o Ancestors(Parent(c))

\* the ids createStore is called with
StoreIds == {"counter", "user"}

\* the initialState arguments: none, or { value: 1 }
NoState == [t |-> "undefined"]
InitialStates == {NoState, [t |-> "state", value |-> 1]}

\* a key shared by every store of the same id, as Symbol.for(id) gives
SymbolFor(id, n) == [id |-> id, n |-> 0]

\* Symbol(id): the n-th symbol made, like no other
SymbolOf(id, n) == [id |-> id, n |-> n]

\* init of the counter store: (initialState = { value: 0 }) =>
\* { count: ref(initialState.value), ... }
CounterInit(initialState) ==
    [count |-> IF initialState = NoState THEN 0 ELSE initialState.value]

\* a reference to the n-th store object init returned
StoreRef(n) == [t |-> "store", ref |-> n]

\* the module has no stores and no form
NoForm ==
    /\ values = <<>> /\ initialValues = <<>> /\ urlParams = <<>>
    /\ options = [urlFields |-> [given |-> FALSE, fields |-> <<>>],
                  arrayFormat |-> [default |-> "comma", fields |-> <<>>],
                  onlyDirtyValues |-> FALSE, updateValues |-> FALSE,
                  toUrl |-> FALSE, fromUrl |-> FALSE, initialValues |-> "none"]
    /\ baselineIsValues = FALSE
    /\ valueJob = FALSE /\ urlJob = FALSE /\ urlValues = <<>>

\* createStore(id, init) at the top level of a module, which runs before
\* any component is created; the first store is the counter (an id counts
\* only by being equal to another or not)
createStore ==
    /\ Len(stores) < MaxStores
    /\ instances = <<>>
    /\ \A c \in Components : phase[c] = "none"
    /\ \E id \in StoreIds :
        /\ stores = <<>> => id = "counter"
        /\ stores' = Append(stores, [id |-> id, key |-> SymbolOf(id, Len(stores) + 1)])
        /\ call' = [t |-> "createStore", id |-> id]
    /\ lastOp' = "createStore"
    /\ returned' = NoResult
    /\ UNCHANGED <<formVars, fetchVars, useFormVars, instances, initCalls, phase, provides, services>>

\* createRawStore(initialState) of the store-th createStore call, made
\* outside any component
createRawStore ==
    /\ Len(instances) < MaxInstances
    /\ \E store \in 1..Len(stores) : \E initialState \in InitialStates :
        /\ instances' = Append(instances, CounterInit(initialState))
        /\ call' = [t |-> "createRawStore", store |-> store, initialState |-> initialState]
    /\ initCalls' = initCalls + 1
    /\ returned' = Returned(StoreRef(Len(instances) + 1))
    /\ lastOp' = "createRawStore"
    /\ UNCHANGED <<formVars, fetchVars, useFormVars, stores, phase, provides, services>>

\* a component is created and its setup() starts: its parent is mounted
BeginSetup ==
    /\ \E c \in Components :
        /\ phase[c] = "none"
        /\ Parent(c) # "none" => phase[Parent(c)] = "mounted"
        /\ phase' = [phase EXCEPT ![c] = "setup"]
        /\ call' = [t |-> "setup", component |-> c]
    /\ lastOp' = "setup"
    /\ returned' = NoResult
    /\ UNCHANGED <<formVars, fetchVars, useFormVars, stores, instances, initCalls, provides, services>>

\* setup() returns and the component renders
EndSetup ==
    /\ \E c \in Components :
        /\ phase[c] = "setup"
        /\ phase' = [phase EXCEPT ![c] = "mounted"]
        /\ call' = [t |-> "mounted", component |-> c]
    /\ lastOp' = "mounted"
    /\ returned' = NoResult
    /\ UNCHANGED <<formVars, fetchVars, useFormVars, stores, instances, initCalls, provides, services>>

\* provideStore(initialState) in the setup of a component:
\* service = createRawStore(initialState); provide(key, service)
provideStore ==
    /\ Len(instances) < MaxInstances
    /\ \E c \in Components : \E store \in 1..Len(stores) :
       \E initialState \in InitialStates :
        /\ phase[c] = "setup"
        /\ instances' = Append(instances, CounterInit(initialState))
        /\ provides' = [provides EXCEPT
                           ![c] = ObjSet(@, stores[store].key,
                                         StoreRef(Len(instances) + 1))]
        /\ services' = [services EXCEPT
                           ![c] = Append(@, [store |-> store,
                                             service |-> StoreRef(Len(instances) + 1)])]
        /\ call' = [t |-> "provideStore", component |-> c, store |-> store,
                    initialState |-> initialState]
    /\ initCalls' = initCalls + 1
    /\ returned' = Returned(StoreRef(Len(instances) + 1))
    /\ lastOp' = "provideStore"
    /\ UNCHANGED <<formVars, fetchVars, useFormVars, stores, phase>>

\* an inject that takes the provider nearest the root
InjectFromRoot(c, key) ==
    LET providers == SelectSeq(Ancestors(c), LAMBDA a : ObjHas(provides[a], key)) IN
    IF Len(providers) = 0 THEN Undefined
    ELSE ObjGet(provides[providers[Len(providers)]], key)

\* inject(key) in the setup of c: the value of the nearest ancestor that
\* provided the key, undefined when there is none
Inject(c, key) ==
    LET providers == SelectSeq(Ancestors(c), LAMBDA a : ObjHas(provides[a], key)) IN
    IF Len(providers) = 0 THEN Undefined
    ELSE ObjGet(provides[providers[1]], key)

\* `Store with id "${id}" was not provided`
NotProvided(id) == <<"Store with id \"", id, "\" was not provided">>

\* a useStore that returns whatever inject gave
UseStoreUnchecked(id, store) == Returned(store)

\* the outcome of useStore once inject has returned store
UseStoreResult(id, store) ==
    IF store = Undefined THEN Thrown(NotProvided(id)) ELSE Returned(store)

\* useStore() in the setup of a component
useStore ==
    /\ \E c \in Components : \E store \in 1..Len(stores) :
        /\ phase[c] = "setup"
        /\ returned' = UseStoreResult(stores[store].id, Inject(c, stores[store].key))
        /\ call' = [t |-> "useStore", component |-> c, store |-> store]
    /\ lastOp' = "useStore"
    /\ UNCHANGED <<formVars, fetchVars, useFormVars, storeVars>>

\* store.increment() through any reference to the store object
increment ==
    /\ \E ref \in 1..Len(instances) :
        /\ instances[ref].count < MaxCount
        /\ instances' = [instances EXCEPT ![ref].count = @ + 1]
        /\ call' = [t |-> "increment", ref |-> ref]
    /\ lastOp' = "increment"
    /\ returned' = NoResult
    /\ UNCHANGED <<formVars, fetchVars, useFormVars, stores, initCalls, phase, provides, services>>

\* store.reset() through any reference to the store object
reset ==
    /\ \E ref \in 1..Len(instances) :
        /\ instances[ref].count # 0
        /\ instances' = [instances EXCEPT ![ref].count = 0]
        /\ call' = [t |-> "reset", ref |-> ref]
    /\ lastOp' = "reset"
    /\ returned' = NoResult
    /\ UNCHANGED <<formVars, fetchVars, useFormVars, stores, initCalls, phase, provides, services>>

NextStore ==
    \/ createStore
    \/ createRawStore
    \/ BeginSetup
    \/ EndSetup
    \/ provideStore
    \/ useStore
    \/ increment
    \/ reset

InitStore ==
    /\ NoForm
    /\ NoStores
    /\ NoFetch
    /\ NoUseForm
    /\ lastOp = "load"
    /\ call = NoArgs
    /\ returned = NoResult

SpecStore == InitStore /\ [][NextStore]_vars

----------------------------------------------------------------------------
(* useManualParallelFetch(key, fetchMap, options)                          *)

\* Promise.all that lists the values in the order the promises settled
PromiseAllAsSettled(promises, order) == [n \in 1..Len(order) |-> promises[order[n]].v]

\* Promise.all(promises): the values of the promises by their position in
\* the array, whatever the order they settled in
PromiseAll(promises, order) == [i \in 1..Len(promises) |-> promises[i].v]

\* the handler given to useAsyncData runs: Object.entries(fetchMap), then
\* entries.map calls every fetch function, and the handler awaits
\* Promise.all of the promises they returned
CallFetches ==
    /\ fetchPc = "ready"
    /\ fetches' = [i \in 1..Len(fetchMap) |-> [s |-> "pending"]]
    /\ fetchPc' = "await"
    /\ lastOp' = "handler"
    /\ call' = NoArgs
    /\ returned' = NoResult
    /\ UNCHANGED <<formVars, storeVars, useFormVars, fetchMap, completed, data>>

\* one of the promises settles: its fetch resolves to a value or rejects
Settle ==
    \E i \in 1..Len(fetches) :
      \E outcome \in {[s |-> "resolved", v |-> "a"], [s |-> "resolved", v |-> "b"],
                      [s |-> "rejected", e |-> fetchMap[i]]} :
        /\ fetches[i].s = "pending"
        /\ fetches' = [fetches EXCEPT ![i] = outcome]
        /\ completed' = Append(completed, i)
        /\ lastOp' = "settle"
        /\ call' = [t |-> "fetch", key |-> fetchMap[i]]
        /\ returned' = NoResult
        /\ UNCHANGED <<formVars, storeVars, useFormVars, fetchMap, fetchPc, data>>

\* the await ends: with the first rejection Promise.all sees, which the
\* handler logs and throws again, or with all the values, which the handler
\* puts in an object under the keys of the entries
Return ==
    /\ fetchPc = "await"
    /\ LET rejected == SelectSeq(completed, LAMBDA i : fetches[i].s = "rejected")
           results == PromiseAll(fetches, completed)
           Assign(acc, index) == ObjSet(acc, fetchMap[index], results[index])
       IN  IF rejected # <<>>
           THEN /\ data' = Thrown(fetches[rejected[1]].e)
                /\ fetchPc' = "failed"
           ELSE /\ \A i \in 1..Len(fetches) : fetches[i].s = "resolved"
                /\ data' = Returned(ForEach(Assign, <<>>, [i \in 1..Len(fetchMap) |-> i]))
                /\ fetchPc' = "done"
    /\ lastOp' = "return"
    /\ call' = NoArgs
    /\ returned' = data'
    /\ UNCHANGED <<formVars, storeVars, useFormVars, fetchMap, fetches, completed>>

NextFetch ==
    \/ CallFetches
    \/ Settle
    \/ Return

\* useManualParallelFetch has registered its handler with useAsyncData; the
\* page gives a fetchMap of one to three keys
InitFetch ==
    /\ fetchMap \in {<<"user">>, <<"user", "posts">>, <<"posts", "user", "stats">>}
    /\ fetches = [i \in 1..Len(fetchMap) |-> [s |-> "idle"]]
    /\ completed = <<>>
    /\ fetchPc = "ready"
    /\ data = NoResult
    /\ NoForm
    /\ NoStores
    /\ NoUseForm
    /\ lastOp = "useManualParallelFetch"
    /\ call = NoArgs
    /\ returned = NoResult

SpecFetch == InitFetch /\ [][NextFetch]_vars

----------------------------------------------------------------------------
(* useForm(options): useFormState, useZodValidation, useFormSubmit         *)
(* The form holds { name, profile: { age } }; a record [name, age] stands  *)
(* for it, and the paths are "name" and "profile.age".                     *)

\* asynchronous calls in flight at a time
MaxCalls == 2
\* submitForm calls between two resets
MaxSubmits == 2

\* schema.parseAsync(input): the paths of the issues of the ZodError it
\* rejects with, none when it resolves. Both schemas ask for a name and an
\* age above zero; the refined one has a refinement on the whole object,
\* whose issue has the empty path
Issues(schema, input) ==
    (IF input.name = "" THEN {"name"} ELSE {})
    \cup (IF input.age = 0 THEN {"profile.age"} ELSE {})
    \cup (IF schema = "refined" /\ input.name = "ann" /\ input.age = 7 THEN {""} ELSE {})

\* submitForm passes a rejection of validate() on: onError receives it and
\* submitForm rejects with it
RethrownValidation(error) == [onError |-> <<error>>, outcome |-> Thrown(error)]

\* submitForm's inner catch around validate(): it calls nothing and returns
CaughtValidation(error) == [onError |-> <<>>, outcome |-> Returned([t |-> "undefined"])]

\* submitForm(), up to its first await: the flags, then validate(), which
\* hands values.value to schema.parseAsync
submitForm ==
    /\ formOptions.schema # "none"
    /\ Len(tasks) < MaxCalls
    /\ submitCount < MaxSubmits
    /\ isSubmitting' = TRUE
    /\ submitted' = TRUE
    /\ submitCount' = submitCount + 1
    /\ tasks' = Append(tasks, [op |-> "submitForm", pc |-> "validate", path |-> "",
                               issues |-> Issues(formOptions.schema, formValues)])
    /\ lastOp' = "submitForm"
    /\ call' = NoArgs
    /\ returned' = NoResult
    /\ settled' = [t |-> "none"]
    /\ UNCHANGED <<formVars, storeVars, fetchVars, formOptions, given, initialNow,
                   topShared, nestedShared, formValues, touched, errors, isValid,
                   result>>

\* validate(), up to its await
validate ==
    /\ formOptions.schema # "none"
    /\ Len(tasks) < MaxCalls
    /\ tasks' = Append(tasks, [op |-> "validate", pc |-> "validate", path |-> "",
                               issues |-> Issues(formOptions.schema, formValues)])
    /\ lastOp' = "validate"
    /\ call' = NoArgs
    /\ returned' = NoResult
    /\ settled' = [t |-> "none"]
    /\ UNCHANGED <<formVars, storeVars, fetchVars, formOptions, given, initialNow,
                   topShared, nestedShared, formValues, touched, errors, isValid,
                   isSubmitting, submitted, submitCount, result>>

\* validateField(path), up to its await
validateField ==
    \E path \in {"name", "profile.age"} :
        /\ formOptions.schema # "none"
        /\ Len(tasks) < MaxCalls
        /\ tasks' = Append(tasks, [op |-> "validateField", pc |-> "validate", path |-> path,
                                   issues |-> Issues(formOptions.schema, formValues)])
        /\ lastOp' = "validateField"
        /\ call' = NoArgs
        /\ returned' = NoResult
        /\ settled' = [t |-> "none"]
        /\ UNCHANGED <<formVars, storeVars, fetchVars, formOptions, given, initialNow,
                       topShared, nestedShared, formValues, touched, errors, isValid,
                       isSubmitting, submitted, submitCount, result>>

\* schema.parseAsync settles in validate(): errors and isValid are set and
\* validate() resolves or rejects; a submitForm that awaited it goes on, to
\* onSubmit or to its end
ValidateSettles ==
    \E i \in 1..Len(tasks) :
      LET task == tasks[i]
          rest == SubSeq(tasks, 1, i - 1) \o SubSeq(tasks, i + 1, Len(tasks))
          validationErrors == task.issues \ {""}
          caught == CaughtValidation("ZodError")
      IN  /\ task.op \in {"validate", "submitForm"}
          /\ task.pc = "validate"
          /\ errors' = IF task.issues = {} THEN {} ELSE validationErrors
          /\ isValid' = IF task.issues = {} THEN TRUE ELSE validationErrors = {}
          /\ call' = NoArgs
          /\ CASE task.op = "validate" ->
                    /\ tasks' = rest
                    /\ lastOp' = "validate settled"
                    /\ returned' = IF task.issues = {} THEN Returned(formValues)
                                   ELSE Thrown("ZodError")
                    /\ settled' = [t |-> "call", op |-> "validate", issues |-> task.issues,
                                   path |-> "", onSubmit |-> 0, onError |-> <<>>]
                    /\ UNCHANGED isSubmitting
               [] task.op = "submitForm" /\ task.issues # {} ->
                    /\ tasks' = rest
                    /\ isSubmitting' = FALSE
                    /\ lastOp' = "submitForm settled"
                    /\ returned' = caught.outcome
                    /\ settled' = [t |-> "call", op |-> "submitForm", issues |-> task.issues,
                                   path |-> "", onSubmit |-> 0,
                                   onError |-> IF formOptions.onError THEN caught.onError
                                               ELSE <<>>]
               [] task.op = "submitForm" /\ task.issues = {} /\ formOptions.onSubmit ->
                    /\ tasks' = [tasks EXCEPT ![i].pc = "onSubmit"]
                    /\ lastOp' = "onSubmit"
                    /\ returned' = NoResult
                    /\ settled' = [t |-> "none"]
                    /\ UNCHANGED isSubmitting
               [] task.op = "submitForm" /\ task.issues = {} /\ ~formOptions.onSubmit ->
                    /\ tasks' = rest
                    /\ isSubmitting' = FALSE
                    /\ lastOp' = "submitForm settled"
                    /\ returned' = Returned([t |-> "undefined"])
                    /\ settled' = [t |-> "call", op |-> "submitForm", issues |-> {},
                                   path |-> "", onSubmit |-> 0, onError |-> <<>>]
          /\ UNCHANGED <<formVars, storeVars, fetchVars, formOptions, given, initialNow,
                         topShared, nestedShared, formValues, touched, submitted,
                         submitCount, result>>

\* schema.parseAsync settles in validateField(path)
ValidateFieldSettles ==
    \E i \in 1..Len(tasks) :
      LET task == tasks[i]
          path == task.path
          relevantErrors == {p \in task.issues : p = path}
      IN  /\ task.op = "validateField"
          /\ errors' = CASE task.issues = {} -> errors \ {path}
                         [] task.issues # {} /\ relevantErrors # {} -> errors \cup relevantErrors
                         [] OTHER -> errors \ {path}
          /\ isValid' = (errors' = {})
          /\ tasks' = SubSeq(tasks, 1, i - 1) \o SubSeq(tasks, i + 1, Len(tasks))
          /\ lastOp' = "validateField settled"
          /\ call' = NoArgs
          /\ returned' = Returned(IF task.issues = {} THEN TRUE ELSE path \notin errors')
          /\ settled' = [t |-> "call", op |-> "validateField", issues |-> task.issues,
                         path |-> path, onSubmit |-> 0, onError |-> <<>>]
          /\ UNCHANGED <<formVars, storeVars, fetchVars, formOptions, given, initialNow,
                         topShared, nestedShared, formValues, touched, isSubmitting,
                         submitted, submitCount, result>>

\* the promise of onSubmit settles in submitForm: the result is kept and
\* returned, or both catch blocks hand the error to onError and throw it
\* again; finally clears isSubmitting
OnSubmitSettles ==
    \E i \in 1..Len(tasks) :
      \E resolved \in BOOLEAN :
        /\ tasks[i].pc = "onSubmit"
        /\ result' = IF resolved THEN [t |-> "result", v |-> "saved"] ELSE result
        /\ isSubmitting' = FALSE
        /\ tasks' = SubSeq(tasks, 1, i - 1) \o SubSeq(tasks, i + 1, Len(tasks))
        /\ lastOp' = "submitForm settled"
        /\ call' = NoArgs
        /\ returned' = IF resolved THEN Returned(result') ELSE Thrown("failed")
        /\ settled' = [t |-> "call", op |-> "submitForm", issues |-> {}, path |-> "",
                       onSubmit |-> 1,
                       onError |-> IF ~resolved /\ formOptions.onError
                                   THEN <<"failed", "failed">> ELSE <<>>]
        /\ UNCHANGED <<formVars, storeVars, fetchVars, formOptions, given, initialNow,
                       topShared, nestedShared, formValues, touched, errors, isValid,
                       submitted, submitCount>>

\* setFieldValue(path, value, validate): setValueByPath copies the objects
\* on the path, the field is touched, and validateField(path) is called
\* unless validate is false
setFieldValue ==
    \E path \in {"name", "profile.age"}, validateIt \in BOOLEAN :
      \E value \in (IF path = "name" THEN {"", "ann"} ELSE {0, 7}) :
        /\ formOptions.schema # "none"
        /\ validateIt => Len(tasks) < MaxCalls
        /\ formValues' = IF path = "name" THEN [formValues EXCEPT !.name = value]
                         ELSE [formValues EXCEPT !.age = value]
        /\ topShared' = FALSE
        /\ nestedShared' = (nestedShared /\ path = "name")
        /\ touched' = touched \cup {path}
        /\ tasks' = IF validateIt
                    THEN Append(tasks, [op |-> "validateField", pc |-> "validate",
                                        path |-> path,
                                        issues |-> Issues(formOptions.schema, formValues')])
                    ELSE tasks
        /\ lastOp' = "setFieldValue"
        /\ call' = NoArgs
        /\ returned' = NoResult
        /\ settled' = [t |-> "none"]
        /\ UNCHANGED <<formVars, storeVars, fetchVars, formOptions, given, initialNow,
                       errors, isValid, isSubmitting, submitted, submitCount, result>>

\* useForm's updateValues(newValues): a shallow copy of an object of the
\* caller
formUpdateValues ==
    \E newValues \in [name : {"", "ann"}, age : {0, 7}] :
        /\ formOptions.schema # "none"
        /\ formValues' = newValues
        /\ topShared' = FALSE
        /\ nestedShared' = FALSE
        /\ touched' = {}
        /\ lastOp' = "updateValues"
        /\ call' = NoArgs
        /\ returned' = NoResult
        /\ settled' = [t |-> "none"]
        /\ UNCHANGED <<formVars, storeVars, fetchVars, formOptions, given, initialNow,
                       errors, isValid, isSubmitting, submitted, submitCount, result,
                       tasks>>

\* an assignment to values.value.name or to values.value.profile.age, as
\* v-model makes: values is ref(options.initialValues), so the object
\* assigned to may be the one the caller passed
Assign ==
    \E path \in {"name", "profile.age"} :
      \E value \in (IF path = "name" THEN {"", "ann"} ELSE {0, 7}) :
        /\ formOptions.schema # "none"
        /\ formValues' = IF path = "name" THEN [formValues EXCEPT !.name = value]
                         ELSE [formValues EXCEPT !.age = value]
        /\ formValues' # formValues
        /\ initialNow' = CASE path = "name" /\ topShared ->
                                [initialNow EXCEPT !.name = value]
                           [] path = "profile.age" /\ nestedShared ->
                                [initialNow EXCEPT !.age = value]
                           [] OTHER -> initialNow
        /\ lastOp' = "assign"
        /\ call' = NoArgs
        /\ returned' = NoResult
        /\ settled' = [t |-> "none"]
        /\ UNCHANGED <<formVars, storeVars, fetchVars, formOptions, given, topShared,
                       nestedShared, touched, errors, isValid, isSubmitting, submitted,
                       submitCount, result, tasks>>

\* resetForm(): resetValues() takes a shallow copy of options.initialValues,
\* then clearErrors() and resetSubmission()
resetForm ==
    /\ formOptions.schema # "none"
    /\ formValues' = initialNow
    /\ topShared' = FALSE
    /\ nestedShared' = TRUE
    /\ touched' = {}
    /\ errors' = {}
    /\ isValid' = TRUE
    /\ isSubmitting' = FALSE
    /\ submitted' = FALSE
    /\ submitCount' = 0
    /\ result' = [t |-> "null"]
    /\ lastOp' = "resetForm"
    /\ call' = NoArgs
    /\ returned' = NoResult
    /\ settled' = [t |-> "none"]
    /\ UNCHANGED <<formVars, storeVars, fetchVars, formOptions, given, initialNow,
                   tasks>>

\* a page that awaits each call before it does anything else with the form
NextForm ==
    \/ tasks = <<>> /\ submitForm
    \/ tasks = <<>> /\ validate
    \/ tasks = <<>> /\ validateField
    \/ ValidateSettles
    \/ ValidateFieldSettles
    \/ OnSubmitSettles
    \/ tasks = <<>> /\ setFieldValue
    \/ tasks = <<>> /\ formUpdateValues
    \/ tasks = <<>> /\ Assign
    \/ tasks = <<>> /\ resetForm

\* useForm(options) has returned: values is ref(options.initialValues)
InitForm ==
    /\ formOptions \in {[schema |-> "fields", onSubmit |-> TRUE, onError |-> TRUE],
                        [schema |-> "refined", onSubmit |-> TRUE, onError |-> TRUE],
                        [schema |-> "fields", onSubmit |-> FALSE, onError |-> FALSE]}
    /\ given \in {[name |-> "", age |-> 7], [name |-> "ann", age |-> 7]}
    /\ initialNow = given
    /\ formValues = given
    /\ topShared = TRUE
    /\ nestedShared = TRUE
    /\ touched = {} /\ errors = {}
    /\ isValid = TRUE /\ isSubmitting = FALSE /\ submitted = FALSE
    /\ submitCount = 0 /\ result = [t |-> "null"]
    /\ tasks = <<>> /\ settled = [t |-> "none"]
    /\ NoForm
    /\ NoStores
    /\ NoFetch
    /\ lastOp = "useForm"
    /\ call = NoArgs
    /\ returned = NoResult

SpecForm == InitForm /\ [][NextForm]_vars

\* a page whose submit button stays enabled: submitForm calls overlap, and
\* the fields are edited in between
NextSubmit ==
    \/ submitForm
    \/ ValidateSettles
    \/ OnSubmitSettles
    \/ Assign

SpecSubmit == InitForm /\ [][NextSubmit]_vars

----------------------------------------------------------------------------
(* Properties *)

\* the keys of a URL that belong to a field, in any notation
KeysOf(url, field) == {url[n].k : n \in {m \in 1..Len(url) : url[m].k.b = field}}

\* the field is one the synchronizer handles
Synced(field) == ~HasUrlFields \/ UrlFieldsIncludes(field)

\* C1: after the sync of a non-empty array of strings xs held by the
\* synchronized field tags, fromUrlParams on the URL gives xs back (same
\* elements, same order), whatever the array format
C1_RoundTrip ==
    LET xs == getValueByPath(values, "tags") IN
    (lastOp = "sync" /\ xs.t = "array" /\ Len(xs.a) > 0)
        => getValueByPath(fromUrlParams(urlParams, values), "tags") = xs

\* C2: with onlyDirtyValues, after a sync a synchronized field has a key in
\* the URL only if its value differs from the baseline
C2_OnlyDirtyInUrl ==
    (lastOp = "sync" /\ options.onlyDirtyValues)
        => \A n \in 1..Len(FieldsToInclude(values)) :
              LET field == FieldsToInclude(values)[n] IN
              KeysOf(urlParams, field) # {}
                  => isDirty(field, getValueByPath(values, field))

\* C3: after a sync the URL holds, for each synchronized array field, only
\* keys the sync of the current value writes: no key of another encoding
\* and no index key beyond the array's length
C3_OnlyCurrentEncoding ==
    lastOp = "sync"
        => \A n \in 1..Len(FieldsToInclude(values)) :
              LET field == FieldsToInclude(values)[n] IN
              getValueByPath(values, field).t = "array"
                  => KeysOf(urlParams, field)
                         \subseteq KeysOf(SyncToUrl(<<>>, values).o, field)

\* C4: after the sync of an empty array held by the synchronized field tags
\* the URL has no key of tags in any notation
C4_EmptyArrayNoEntry ==
    (lastOp = "sync" /\ getValueByPath(values, "tags") = ArrV(<<>>))
        => KeysOf(urlParams, "tags") = {}

\* C5: with urlFields, a sync leaves every URL entry of a field outside
\* urlFields as it was, and fromUrlParams puts no such field in its result
C5_UnlistedUntouched ==
    [][HasUrlFields =>
          /\ lastOp' = "sync" =>
                SelectSeq(urlParams', LAMBDA e : ~UrlFieldsIncludes(e.k.b))
                    = SelectSeq(urlParams, LAMBDA e : ~UrlFieldsIncludes(e.k.b))
          /\ lastOp' \in {"read", "urlwatch"} =>
                \A n \in 1..Len(urlValues') : UrlFieldsIncludes(urlValues'[n].k)]_vars

\* a sync has run with urlFields over a URL holding keys of inStock and q
C5_Witness ==
    /\ lastOp = "sync"
    /\ HasUrlFields
    /\ ObjHas(urlParams, PlainKey("inStock"))
    /\ ObjHas(urlParams, PlainKey("q"))
    /\ ObjHas(values, "inStock")
    /\ KeysOf(urlParams, "tags") # {}

\* C6: with the merging updateValues callback, whenever a watcher is queued
\* the watchers come to rest: a state with no watcher queued follows
C6_WatchersSettle == (valueJob \/ urlJob) ~> (~valueJob /\ ~urlJob)

\* C7: clearUrlParams() with urlFields leaves no key f, f[], f[0]..f[9] of
\* a field f of urlFields and leaves every entry of any other field as it was
C7_ClearKeepsUnrelated ==
    [][(lastOp' = "clear" /\ HasUrlFields) =>
          /\ \A n \in 1..Len(urlParams') :
                LET key == urlParams'[n].k IN
                UrlFieldsIncludes(key.b) => key.k = "index" /\ key.i > 9
          /\ SelectSeq(urlParams', LAMBDA e : ~UrlFieldsIncludes(e.k.b))
                = SelectSeq(urlParams, LAMBDA e : ~UrlFieldsIncludes(e.k.b))]_vars

\* clearUrlParams() has deleted keys of urlFields and q is still there
C7_Witness ==
    /\ lastOp = "clear"
    /\ HasUrlFields
    /\ urlJob
    /\ ObjHas(urlParams, PlainKey("q"))
    /\ ObjHas(urlParams, PlainKey("inStock"))

\* C8: after the sync of a non-empty array under the bracket format the URL
\* holds the key tags[] with one entry per item
C8_BracketKeyWritten ==
    LET xs == getValueByPath(values, "tags") IN
    (lastOp = "sync" /\ ArrayFormatOf("tags") = "bracket" /\ Len(xs.a) > 0)
        => /\ ObjHas(urlParams, BracketKey("tags"))
           /\ ObjGet(urlParams, BracketKey("tags")) = UrlList(MapSeq(xs.a, String))

\* C9: when the URL carries tags in index notation only, fromUrlParams puts
\* the element of key tags[n] at position n of the array, whatever the order
\* of the keys
C9_IndexPosition ==
    (/\ lastOp = "read"
     /\ getValueByPath(values, "tags").t = "array"
     /\ \A key \in KeysOf(urlParams, "tags") : key.k = "index")
        => \A key \in KeysOf(urlParams, "tags") :
              LET got == getValueByPath(urlValues, "tags") IN
              /\ got.t = "array"
              /\ Len(got.a) > key.i
              /\ got.a[key.i + 1] = StrV(ObjGet(urlParams, key).v[1])

\* the value fromUrlParams gave the field of a plain URL entry is the entry's
\* string coerced to the runtime type of the reference value
CoercedAsReference(e) ==
    LET ref == getValueByPath(values, e.k.b)
        got == getValueByPath(urlValues, e.k.b)
    IN /\ ref.t = "number" => got = Number(TextOf(e.v))
       /\ (ref = NumV(30) /\ e.v = UrlString(S("42"))) => got = NumV(42)
       /\ ref.t = "boolean" => got = BoolV(TextOf(e.v) = S("true"))
       /\ ref.t = "undefined" => got = StrV(TextOf(e.v))

\* the plain URL entries of synchronized fields
ScalarEntries ==
    {urlParams[n] : n \in {m \in 1..Len(urlParams) :
                              /\ urlParams[m].k.k = "plain"
                              /\ Synced(urlParams[m].k.b)}}

C11_RoundTripStable ==
    lastOp = "read"
        => \E v1 \in {Applied(values, urlValues)} :
              /\ ~ToUrlThrows(v1)
              /\ Applied(v1, fromUrlParams(toUrlParams(v1), v1)) = v1

\* C12: no operation of the synchronizer throws, whatever the URL and the
\* form hold
C12_NeverThrows == returned.t # "throw"

\* C12, second half: malformed JSON for an object field is read as the raw
\* string, and the other fields of the URL are still read
C12_MalformedJsonKept ==
    (/\ lastOp = "read"
     /\ ObjHas(urlParams, PlainKey("meta"))
     /\ ObjGet(urlParams, PlainKey("meta")) = UrlString(S("x"))
     /\ getValueByPath(values, "meta").t = "object")
        => /\ getValueByPath(urlValues, "meta") = StrV(S("x"))
           /\ ObjHas(urlParams, PlainKey("search"))
                  => getValueByPath(urlValues, "search") = StrV(S("x"))
           /\ ObjHas(urlParams, PlainKey("inStock"))
                  => getValueByPath(urlValues, "inStock") = BoolV(FALSE)

\* C13: immediately after updateUrlParams(params) the URL store holds
\* exactly the pairs of params: no key it held before and params lacks, and
\* every pair of params as given
C13_UrlIsParams ==
    lastOp = "updateUrlParams"
        => /\ urlParams = call.params
           /\ \A n \in 1..Len(call.replaced) :
                  ~ObjHas(call.params, call.replaced[n].k)
                      => ~ObjHas(urlParams, call.replaced[n].k)
           /\ \A n \in 1..Len(call.params) :
                  /\ ObjHas(urlParams, call.params[n].k)
                  /\ ObjGet(urlParams, call.params[n].k) = call.params[n].v

\* updateUrlParams({q: 'x', age: '42'}) on a URL that held tags and no q
C13_Witness ==
    /\ lastOp = "updateUrlParams"
    /\ ObjHas(call.replaced, PlainKey("tags"))
    /\ ~ObjHas(call.replaced, PlainKey("q"))
    /\ ObjKeys(urlParams) = << PlainKey("q"), PlainKey("age") >>
    /\ ObjGet(urlParams, PlainKey("age")) = UrlString(S("42"))

\* the field's current value differs from its baseline value under the
\* dirty equality rule
Differs(field) ==
    ChangedFrom(getValueByPath(initialValues, field), getValueByPath(values, field))

\* C15: isFieldDirty(path) returns true exactly when the value at path
\* differs from its baseline value, getDirtyFields() returns exactly the
\* synchronized fields that differ, whether onlyDirtyValues is enabled or
\* not
C15_DirtyReported ==
    /\ lastOp = "isFieldDirty" => returned = Returned(Differs(call.path))
    /\ lastOp = "getDirtyFields"
          => returned = Returned(SelectSeq(FieldsToInclude(values), Differs))

\* C15, second half: neither call changes the URL, the values or the
\* baseline
C15_InspectionOnly ==
    [][lastOp' \in {"isFieldDirty", "getDirtyFields"}
          => UNCHANGED <<urlParams, values, initialValues>>]_vars

\* C16: after resetInitialValues(b) the baseline is b; after
\* resetInitialValues() it is a copy of the current values, and with
\* onlyDirtyValues getDirtyFields() would return no field
C16_ResetBaseline ==
    lastOp = "resetInitialValues"
        => /\ call.newInitialValues = "given" => initialValues = GivenBaseline
           /\ call.newInitialValues = "values" => initialValues = values
           /\ call.newInitialValues = "none"
                  => /\ initialValues = values
                     /\ options.onlyDirtyValues => DirtyFields = <<>>

\* C17: only resetInitialValues changes the baseline
C17_BaselineFrame ==
    [][initialValues' # initialValues => lastOp' = "resetInitialValues"]_vars

\* C14: with toUrl given, the value -> URL sync leaves every pair toUrl
\* returned in the URL, key and value unchanged; with fromUrl given, what
\* initialValuesFromUrl returns and what updateValues receives is the
\* result of fromUrl
C14_OverridesVerbatim ==
    /\ (lastOp = "sync" /\ options.toUrl)
          => \A n \in 1..Len(toUrl(values)) :
                /\ ObjHas(urlParams, toUrl(values)[n].k)
                /\ ObjGet(urlParams, toUrl(values)[n].k) = toUrl(values)[n].v
    /\ (lastOp \in {"read", "urlwatch"} /\ options.fromUrl)
          => urlValues = fromUrl(urlParams)

\* C14, second half: the result of fromUrl is what initialValuesFromUrl
\* returns and what updateValues receives
C14_FromUrlVerbatim ==
    (lastOp \in {"read", "urlwatch"} /\ options.fromUrl)
        => urlValues = fromUrl(urlParams)

\* the components above c whose setup has called provideStore of a store
Providers(c, store) ==
    SelectSeq(Ancestors(c),
              LAMBDA a : \E n \in 1..Len(services[a]) : services[a][n].store = store)

\* C18: useStore throws 'Store with id "<id>" was not provided' when no
\* ancestor of the calling component has called provideStore of the same
\* createStore, and returns a store when one has
C18_ThrowsIffNotProvided ==
    lastOp = "useStore"
        => IF Len(Providers(call.component, call.store)) = 0
           THEN returned = Thrown(NotProvided(stores[call.store].id))
           ELSE returned.t = "value" /\ returned.v.t = "store"

\* useStore of a second store with the id "counter" has thrown in Child,
\* whose parent provided the first store of that id
C18_Witness ==
    /\ lastOp = "useStore"
    /\ call.component = "Child" /\ call.store = 2
    /\ stores[1].id = "counter" /\ stores[2].id = "counter"
    /\ Len(Providers("Child", 1)) = 1
    /\ returned = Thrown(<<"Store with id \"", "counter", "\" was not provided">>)

\* C19 as stated: the store useStore returns in a component is the store
\* that provideStore returned in each of its ancestors that called it
C19_SameAsEveryAncestor ==
    (lastOp = "useStore" /\ returned.t = "value")
        => \A a \in Components : \A n \in 1..Len(services[a]) :
              (/\ \E m \in 1..Len(Ancestors(call.component)) :
                      Ancestors(call.component)[m] = a
               /\ services[a][n].store = call.store)
                  => returned.v = services[a][n].service

\* the store the last provideStore call of a component returned for a store
LastService(a, store) ==
    LET mine == SelectSeq(services[a], LAMBDA sv : sv.store = store) IN
    mine[Len(mine)].service

\* C19: the store useStore returns in a component is the store that the
\* last provideStore call of its nearest providing ancestor returned, so
\* both references are one object and see the same state
C19_SameAsNearestProvider ==
    (lastOp = "useStore" /\ returned.t = "value")
        => returned.v = LastService(Providers(call.component, call.store)[1], call.store)

\* Grandchild used a store that Root and Child both provided, and got
\* Child's
C19_Witness ==
    /\ lastOp = "useStore"
    /\ call.component = "Grandchild"
    /\ Len(Providers("Grandchild", call.store)) = 2
    /\ returned.t = "value"
    /\ returned.v = LastService("Child", call.store)
    /\ returned.v # LastService("Root", call.store)

\* C20: two createStore calls never share an injection key, also with the
\* same id; createRawStore and provideStore run init once and return a new
\* store object holding the given initial state; an operation on one store
\* object leaves every other one as it was
C20_Independent ==
    [][/\ \A a, b \in 1..Len(stores') : a # b => stores'[a].key # stores'[b].key
       /\ lastOp' \in {"createRawStore", "provideStore"}
             => /\ initCalls' = initCalls + 1
                /\ returned'.v = StoreRef(Len(instances) + 1)
                /\ Len(instances') = Len(instances) + 1
                /\ instances'[Len(instances')].count =
                       (IF call'.initialState = NoState THEN 0
                        ELSE call'.initialState.value)
                /\ \A i \in 1..Len(instances) : instances'[i] = instances[i]
       /\ lastOp' \in {"increment", "reset"}
             => /\ Len(instances') = Len(instances)
                /\ instances'[call'.ref] # instances[call'.ref]
                /\ \A i \in 1..Len(instances) :
                       i # call'.ref => instances'[i] = instances[i]
       /\ lastOp' \notin {"createRawStore", "provideStore"} => initCalls' = initCalls
      ]_vars

\* two stores of the id "counter" exist, and two store objects made from
\* different initial states hold different counts
C20_Witness ==
    /\ Len(stores) = 2 /\ stores[1].id = stores[2].id
    /\ lastOp = "increment"
    /\ Len(instances) = 2
    /\ call.ref = 1
    /\ instances[1].count = 1 /\ instances[2].count = 0

\* C23: a sync whose computed parameters are what the URL store already
\* holds leaves the store as it is and does not queue the URL watcher
C23_EqualSyncSilent ==
    [][(lastOp' = "sync" /\ returned' = NoResult /\ toUrlParams(values) = urlParams)
          => (urlParams' = urlParams /\ urlJob' = urlJob)]_vars

\* the field is one the synchronizer handles: a field of urlFields, or
\* without urlFields a field of the form
SyncedField(field) ==
    IF HasUrlFields THEN UrlFieldsIncludes(field) ELSE ObjHas(values, field)

\* C24: a sync deletes a URL key only when it belongs to a synchronized
\* field and is not in the computed parameters, and leaves every entry of
\* a key that belongs to no synchronized field as it was, with urlFields
\* and without
C24_SyncKeepsUnrelated ==
    [][(lastOp' = "sync" /\ returned' = NoResult) =>
          /\ \A n \in 1..Len(urlParams) :
                ~ObjHas(urlParams', urlParams[n].k)
                    => /\ SyncedField(urlParams[n].k.b)
                       /\ ~ObjHas(toUrlParams(values), urlParams[n].k)
          /\ SelectSeq(urlParams', LAMBDA e : ~SyncedField(e.k.b))
                = SelectSeq(urlParams, LAMBDA e : ~SyncedField(e.k.b))]_vars

\* C24, the frame: a sync leaves every URL entry whose key belongs to no
\* synchronized field as it was, with urlFields and without
C24_UnrelatedKept ==
    [][(lastOp' = "sync" /\ returned' = NoResult) =>
          SelectSeq(urlParams', LAMBDA e : ~SyncedField(e.k.b))
              = SelectSeq(urlParams, LAMBDA e : ~SyncedField(e.k.b))]_vars

\* C26: after clearUrlParams() with urlFields the URL holds no key of a
\* field of urlFields, whatever the length of the arrays synced before
C26_ClearLeavesNoFieldKey ==
    (lastOp = "clear" /\ HasUrlFields)
        => \A n \in 1..Len(urlParams) : ~UrlFieldsIncludes(urlParams[n].k.b)

\* every element of the array a read gave a field has the type of the
\* elements of the field's reference array
ElementsTypedAs(field) ==
    ObjHas(urlValues, field)
        => LET got == getValueByPath(urlValues, field)
               ref == getValueByPath(values, field)
           IN /\ got.t = "array"
              /\ \A n \in 1..Len(got.a) : got.a[n].t = ref.a[1].t

\* C25: fromUrlParams gives a field whose reference array holds numbers
\* an array of numbers, and one whose reference array holds booleans an
\* array of booleans, in whichever array notation the URL holds the field
C25_ElementsCoerced ==
    lastOp = "read" => ElementsTypedAs("sizes") /\ ElementsTypedAs("flags")

\* C21: whatever the order the fetches complete in, the object the handler
\* of useManualParallelFetch returns has exactly the keys of fetchMap, each
\* with the value its own fetch resolved to; and every fetch function has
\* been called by the time the handler awaits
C21_KeyedByOwnFetch ==
    /\ fetchPc = "done" =>
         /\ data.t = "value"
         /\ Len(data.v) = Len(fetchMap)
         /\ \A i \in 1..Len(fetchMap) :
              /\ ObjHas(data.v, fetchMap[i])
              /\ ObjGet(data.v, fetchMap[i]) = fetches[i].v
    /\ fetchPc \in {"await", "done", "failed"} =>
         \A i \in 1..Len(fetches) : fetches[i].s # "idle"

\* three fetches that completed last first, to different values, and were
\* combined
C21_Witness ==
    /\ fetchPc = "done"
    /\ completed = <<3, 2, 1>>
    /\ fetches[1].v # fetches[3].v

InFlight == {i \in 1..Len(tasks) : tasks[i].op = "submitForm"}

\* C27: isSubmitting is true exactly while a submitForm call is in flight,
\* however overlapping calls interleave
C27_SubmittingWhileInFlight ==
    formOptions.schema # "none" => (isSubmitting <=> InFlight # {})

\* C28: a submitForm call invokes onError at most once and only when it
\* rejects; when onSubmit rejects, onError has received that error exactly
\* once by the time submitForm rejects with it
C28_OnErrorOnce ==
    lastOp = "submitForm settled" =>
        /\ Len(settled.onError) <= 1
        /\ settled.onError # <<>> => returned.t = "throw"
        /\ (settled.onSubmit = 1 /\ returned.t = "throw" /\ formOptions.onError) =>
               settled.onError = << returned.e >>

\* C29: when validate() or validateField(path) has settled, isValid is true
\* exactly if the schema accepted the values
C29_ValidIffAccepted ==
    lastOp \in {"validate settled", "validateField settled"} =>
        (isValid <=> settled.issues = {})

\* C30: after resetForm() the values are the initialValues that were passed
\* to useForm, touched and errors are empty, isValid is true, and
\* isSubmitting, submitted, submitCount and result are false, false, 0, null
C30_ResetRestoresConstruction ==
    lastOp = "resetForm" =>
        /\ formValues = given
        /\ touched = {}
        /\ errors = {}
        /\ isValid
        /\ ~isSubmitting
        /\ ~submitted
        /\ submitCount = 0
        /\ result = [t |-> "null"]

====
